---------------------------- MODULE Spec2Model ----------------------------
(***************************************************************************)
(* A model of src/main.py: the YouTube video downloader API.               *)
(*                                                                         *)
(*   extract_video_info   POST /extract-video   (format normalizer)        *)
(*   download_video_proxy GET  /download-proxy  (relay streamer)           *)
(*   download_format      GET  /download-format (link builder)             *)
(*                                                                         *)
(* Python values are modelled as follows.  A str is the sequence of its    *)
(* characters (one-character strings), so that startswith, endswith, `in`, *)
(* lower, upper, quote and unquote are computed on the characters.  A dict *)
(* is a function whose DOMAIN is the set of keys that are present.  A dict *)
(* value is None (the empty tuple) or the one-element tuple <<v>> of an    *)
(* int or a str, so a key that is present with the value None differs from *)
(* a key that is missing, as it does for dict.get(key, default).           *)
(***************************************************************************)
EXTENDS Integers, Sequences, FiniteSets, TLC

(***************************************************************************)
(* Bounds of the model.                                                    *)
(***************************************************************************)
\* longest raw format list of the general extraction specification
MaxFormats == 3
\* longest raw format list of the specification of the cap
MaxCapFormats == 17
\* longest upstream body, in bytes
MaxBody == 3
\* longest variable part of format_url, and longest title
MaxTail == 3
MaxTitle == 2

(***************************************************************************)
(* Python values.                                                          *)
(***************************************************************************)
None == <<>>

\* the dict value holding the int or str v
V(v) == <<v>>

\* d.get(k, default); d.get(k) is Get(d, k, None)
Get(d, k, default) == IF k \in DOMAIN d THEN d[k] ELSE default

\* truth value of an Optional[int] and of an Optional[str]
TruthyInt(v) == v /= None /\ v[1] /= 0
TruthyStr(v) == v /= None /\ v[1] /= <<>>

Min(a, b) == IF a < b THEN a ELSE b

\* a or b, for Optional[int] operands
OrInt(a, b) == IF TruthyInt(a) THEN a ELSE b

Digit == <<"0", "1", "2", "3", "4", "5", "6", "7", "8", "9">>

\* str(n) of a non-negative int
RECURSIVE IntToStr(_)
IntToStr(n) ==
    IF n < 10 THEN <<Digit[n + 1]>>
    ELSE IntToStr(n \div 10) \o <<Digit[(n % 10) + 1]>>

\* f"{v}" of an Optional[int] dict value
FStrInt(v) == IF v = None THEN <<"N", "o", "n", "e">> ELSE IntToStr(v[1])

\* s.startswith(p), s.endswith(p), p in s
StartsWith(s, p) == Len(s) >= Len(p) /\ SubSeq(s, 1, Len(p)) = p
EndsWith(s, p) ==
    Len(s) >= Len(p) /\ SubSeq(s, Len(s) - Len(p) + 1, Len(s)) = p
Contains(s, p) ==
    \E i \in 0..(Len(s) - Len(p)) : SubSeq(s, i + 1, i + Len(p)) = p

LowerCase == <<"a", "b", "c", "d", "e", "f", "g", "h", "i", "j", "k", "l",
    "m",
               "n", "o", "p", "q", "r", "s", "t", "u", "v", "w", "x", "y", "z">>
UpperCase == <<"A", "B", "C", "D", "E", "F", "G", "H", "I", "J", "K", "L",
    "M",
               "N", "O", "P", "Q", "R", "S", "T", "U", "V", "W", "X", "Y", "Z">>

\* s.lower() and s.upper()
Lower(s) ==
    [i \in 1..Len(s) |->
        IF \E j \in 1..26 : UpperCase[j] = s[i]
        THEN LowerCase[CHOOSE j \in 1..26 : UpperCase[j] = s[i]]
        ELSE s[i]]
Upper(s) ==
    [i \in 1..Len(s) |->
        IF \E j \in 1..26 : LowerCase[j] = s[i]
        THEN UpperCase[CHOOSE j \in 1..26 : LowerCase[j] = s[i]]
        ELSE s[i]]


(***************************************************************************)
(* format_filesize and get_quality_label.                                  *)
(***************************************************************************)
Pow1024 == <<1, 1024, 1024 * 1024, 1024 * 1024 * 1024>>
Units == << <<"B">>, <<"K", "B">>, <<"M", "B">>, <<"G", "B">> >>

\* f"{n / d:.1f}": n / d is exact in a float (d is a power of two), and the
\* format rounds the exact value to one decimal, ties to even
Fixed1(n, d) ==
    LET q == (10 * n) \div d
        r == (10 * n) % d
        t == IF 2 * r > d \/ (2 * r = d /\ q % 2 = 1) THEN q + 1 ELSE q
    IN  IntToStr(t \div 10) \o <<".">> \o <<Digit[(t % 10) + 1]>>

\* the loop of format_filesize from its k-th unit on; the value at that unit
\* is n / 1024^(k-1)
RECURSIVE FormatFilesizeFrom(_, _)
FormatFilesizeFrom(n, k) ==
    IF k > 4
    THEN Fixed1(n \div Pow1024[4], 1024) \o <<" ", "T", "B">>
    ELSE IF n \div Pow1024[k] < 1024
         THEN Fixed1(n, Pow1024[k]) \o <<" ">> \o Units[k]
         ELSE FormatFilesizeFrom(n, k + 1)

format_filesize(size_bytes) ==
    IF ~TruthyInt(size_bytes)
    THEN <<"U", "n", "k", "n", "o", "w", "n">>
    ELSE FormatFilesizeFrom(size_bytes[1], 1)

get_quality_label(fmt) ==
    LET height == Get(fmt, "height", None)
        fps == Get(fmt, "fps", None)
        ext == Get(fmt, "ext", V(<<"m", "p", "4">>))
        filesize == OrInt(Get(fmt, "filesize", None),
                          Get(fmt, "filesize_approx", None))
        acodec == Get(fmt, "acodec", None)
        quality_str ==
            FStrInt(height) \o <<"p">>
            \o (IF TruthyInt(fps) /\ fps[1] > 30 THEN FStrInt(fps) ELSE <<>>)
    IN  IF ~TruthyInt(height)
        THEN IF TruthyStr(acodec) /\ acodec /= V(<<"n", "o", "n", "e">>)
             THEN <<"A", "u", "d", "i", "o", " ", "O", "n", "l", "y", " ",
                 "(">>
                  \o FStrInt(Get(fmt, "abr", V(128)))
                  \o <<"k", "b", "p", "s", " ">> \o Upper(ext[1]) \o <<")">>
             ELSE <<"U", "n", "k", "n", "o", "w", "n", " ",
                    "Q", "u", "a", "l", "i", "t", "y", " ", "(">>
                  \o Upper(ext[1]) \o <<")">>
        ELSE IF TruthyInt(filesize)
             THEN quality_str \o <<" ", "(">> \o Upper(ext[1])
                  \o <<")", " ", "-", " ">> \o format_filesize(filesize)
             ELSE quality_str \o <<" ", "(">> \o Upper(ext[1]) \o <<")">>

(***************************************************************************)
(* State.                                                                  *)
(*                                                                         *)
(* extract_video_info: formats is info.get('formats', []), the list the    *)
(* extractor returned.  sorted_formats is the sorted list; Python's list   *)
(* holds references to the same dicts, modelled as indices into formats.   *)
(* idx is the position of the for loop in sorted_formats.  kept records,   *)
(* for each entry of quality_options, the reference of the raw format it   *)
(* was built from (history, not read by the handler).  pc is the position  *)
(* of the handler, status the HTTP status of its response (0: none yet).   *)
(***************************************************************************)
VARIABLES formats, sorted_formats, idx, seen_qualities, quality_options,
          kept, pc, status

extract_vars == <<formats, sorted_formats, idx, seen_qualities,
                  quality_options, kept, pc, status>>

(***************************************************************************)
(* State of download_format and download_video_proxy.                      *)
(*                                                                         *)
(* format_url, title and ext_arg are the arguments of download_format,     *)
(* link its result (None before it returns), lpc its position.             *)
(* video_url and filename are the arguments of download_video_proxy as the *)
(* framework hands them over, decoded_video_url the URL given to           *)
(* requests.get, fetch_count the number of calls of requests.get.          *)
(* upstream is what the upstream host serves for that URL: a status, the   *)
(* response headers and the body (a sequence of bytes).  upstream_conn is  *)
(* the state of the connection held by `response`, upstream_pos the number *)
(* of body bytes read from it.  client_status, client_headers,             *)
(* client_bytes and client_stream are the response as the client sees it;  *)
(* read_failed records that iter_content raised.  ppc is the position of   *)
(* download_video_proxy.                                                   *)
(***************************************************************************)
VARIABLES format_url, title, ext_arg, link, lpc,
          video_url, filename, decoded_video_url, fetch_count,
          upstream, upstream_conn, upstream_pos,
          client_status, client_headers, client_bytes, client_stream,
          read_failed, ppc

link_vars == <<format_url, title, ext_arg, link, lpc>>

proxy_vars == <<video_url, filename, decoded_video_url, fetch_count,
                upstream, upstream_conn, upstream_pos,
                client_status, client_headers, client_bytes, client_stream,
                read_failed, ppc>>

vars == <<extract_vars, link_vars, proxy_vars>>

(***************************************************************************)
(* extract_video_info: the sort key and the sort of lines 174-177.         *)
(***************************************************************************)
\* the lambda of lines 174-177, a pair (height, filesize)
SortKey(x) ==
    << OrInt(Get(x, "height", V(0)), V(0))[1],
       OrInt(OrInt(Get(x, "filesize", V(0)), Get(x, "filesize_approx", V(0))),
             V(0))[1] >>

\* a sort that compares the heights only
KeyLessHeightOnly(a, b) == a[1] < b[1]

\* Python's order of two such pairs
KeyLess(a, b) == a[1] < b[1] \/ (a[1] = b[1] /\ a[2] < b[2])

\* a descending sort that puts a later element before its equals
InsertBeforeTies(fs, s, i) ==
    Cardinality({j \in 1..Len(s) :
                    KeyLess(SortKey(fs[i]), SortKey(fs[s[j]]))})

\* where reference i goes in the list s, sorted so far: sorted(reverse=True)
\* is descending and stable, so i follows every element whose key is not
\* less than its own
InsertAt(fs, s, i) ==
    Cardinality({j \in 1..Len(s) :
                    ~KeyLess(SortKey(fs[s[j]]), SortKey(fs[i]))})

\* sorted(formats, key=..., reverse=True) of the first n elements
RECURSIVE SortedPrefix(_, _)
SortedPrefix(fs, n) ==
    IF n = 0 THEN <<>>
    ELSE LET s == SortedPrefix(fs, n - 1)
             p == InsertAt(fs, s, n)
         IN  SubSeq(s, 1, p) \o <<n>> \o SubSeq(s, p + 1, Len(s))

Sorted(fs) == SortedPrefix(fs, Len(fs))

(***************************************************************************)
(* extract_video_info: the filters of lines 181-192.                       *)
(***************************************************************************)
\* fmt.get('url', ''), a str in every case the later filters reach
UrlOrEmpty(fmt) == Get(fmt, "url", V(<<>>))[1]

\* line 181
SkipNoUrl(fmt) ==
    \/ ~TruthyStr(Get(fmt, "url", None))
    \/ ~StartsWith(UrlOrEmpty(fmt), <<"h", "t", "t", "p">>)

\* the filter of lines 185-187 without the lower() of line 187
SkipManifestCaseSensitive(fmt) ==
    \/ EndsWith(UrlOrEmpty(fmt), <<".", "m", "3", "u", "8">>)
    \/ EndsWith(UrlOrEmpty(fmt), <<".", "m", "p", "d">>)
    \/ Contains(UrlOrEmpty(fmt), <<"m", "a", "n", "i", "f", "e", "s", "t">>)

\* lines 185-187
SkipManifest(fmt) ==
    \/ EndsWith(UrlOrEmpty(fmt), <<".", "m", "3", "u", "8">>)
    \/ EndsWith(UrlOrEmpty(fmt), <<".", "m", "p", "d">>)
    \/ Contains(Lower(UrlOrEmpty(fmt)),
                <<"m", "a", "n", "i", "f", "e", "s", "t">>)

\* line 191
SkipNoCodec(fmt) ==
    /\ Get(fmt, "vcodec", None) = V(<<"n", "o", "n", "e">>)
    /\ Get(fmt, "acodec", None) = V(<<"n", "o", "n", "e">>)

Skipped(fmt) == SkipNoUrl(fmt) \/ SkipManifest(fmt) \/ SkipNoCodec(fmt)

(***************************************************************************)
(* extract_video_info: the quality identifier of lines 194-206 and the     *)
(* QualityOption of lines 215-227.                                         *)
(***************************************************************************)
QualityId(fmt) ==
    LET height == Get(fmt, "height", V(0))
        ext == Get(fmt, "ext", V(<<"m", "p", "4">>))
        fps == Get(fmt, "fps", V(30))
    IN  IF TruthyInt(height)
        THEN FStrInt(height) \o <<"p", "_">> \o ext[1]
             \o (IF TruthyInt(fps) /\ fps[1] > 30
                 THEN <<"_">> \o FStrInt(fps) \o <<"f", "p", "s">>
                 ELSE <<>>)
        ELSE <<"a", "u", "d", "i", "o", "_">>
             \o FStrInt(Get(fmt, "abr", V(128)))
             \o <<"k", "b", "p", "s", "_">> \o ext[1]

MakeQualityOption(fmt) ==
    [quality |-> get_quality_label(fmt),
     format_id |-> Get(fmt, "format_id", V(<<>>)),
     ext |-> Get(fmt, "ext", V(<<"m", "p", "4">>)),
     filesize |-> Get(fmt, "filesize", None),
     filesize_approx |-> Get(fmt, "filesize_approx", None),
     height |-> Get(fmt, "height", V(0)),
     width |-> Get(fmt, "width", None),
     fps |-> Get(fmt, "fps", V(30)),
     vcodec |-> Get(fmt, "vcodec", None),
     acodec |-> Get(fmt, "acodec", None),
     url |-> fmt["url"]]

\* line 232
MaxOptions == 15

\* a cap that stops one entry late
CapReachedLate(options) == Len(options) > MaxOptions

\* the test of line 232 on the list after the append
CapReached(options) == Len(options) >= MaxOptions

\* a loop that never takes a quality for seen
NeverDuplicate(quality_id, seen) == FALSE

\* the test of line 209
IsDuplicate(quality_id, seen) == quality_id \in seen

(***************************************************************************)
(* extract_video_info: the handler.                                        *)
(*                                                                         *)
(* The metadata of VideoInfo (title, duration, upload_date, description)   *)
(* is left out: it is computed after the check of line 235 from fields the *)
(* format loop never reads.  Format sizes stay below 2^31 / 10.            *)
(***************************************************************************)
\* lines 165-177: the extractor returns info, the formats are sorted
ExtractInfo ==
    /\ pc = "start"
    /\ sorted_formats' = Sorted(formats)
    /\ idx' = 1
    /\ pc' = IF Len(formats) = 0 THEN "check" ELSE "loop"
    /\ UNCHANGED <<formats, seen_qualities, quality_options, kept, status>>
    /\ UNCHANGED <<link_vars, proxy_vars>>

\* line 166 raises (unsupported URL, network error, ...): lines 262-264
ExtractorFails ==
    /\ pc = "start"
    /\ pc' = "done"
    /\ status' = 400
    /\ UNCHANGED <<formats, sorted_formats, idx, seen_qualities,
                   quality_options, kept>>
    /\ UNCHANGED <<link_vars, proxy_vars>>

\* lines 179-233: one iteration of the for loop
LoopIter ==
    /\ pc = "loop"
    /\ LET fmt == formats[sorted_formats[idx]]
           quality_id == QualityId(fmt)
           appended == Append(quality_options, MakeQualityOption(fmt))
           continue ==
               /\ pc' = IF idx = Len(sorted_formats) THEN "check" ELSE "loop"
               /\ UNCHANGED <<seen_qualities, quality_options, kept>>
       IN  IF Skipped(fmt) THEN continue
           ELSE IF IsDuplicate(quality_id, seen_qualities) THEN continue
           ELSE /\ seen_qualities' = seen_qualities \cup {quality_id}
                /\ quality_options' = appended
                /\ kept' = Append(kept, sorted_formats[idx])
                /\ pc' = IF CapReached(appended) \/ idx = Len(sorted_formats)
                         THEN "check" ELSE "loop"
    /\ idx' = idx + 1
    /\ UNCHANGED <<formats, sorted_formats, status>>
    /\ UNCHANGED <<link_vars, proxy_vars>>

\* a handler without the check of line 235
AlwaysOk(options) == 200

\* lines 235-264: no option raises HTTPException(400), which line 262 catches
\* and line 264 raises again as a 400; otherwise the VideoInfo is returned
FinishStatus(options) == IF options = <<>> THEN 400 ELSE 200

Finish ==
    /\ pc = "check"
    /\ pc' = "done"
    /\ status' = FinishStatus(quality_options)
    /\ UNCHANGED <<formats, sorted_formats, idx, seen_qualities,
                   quality_options, kept>>
    /\ UNCHANGED <<link_vars, proxy_vars>>

(***************************************************************************)
(* urllib.parse.quote and urllib.parse.unquote, on ASCII text.             *)
(***************************************************************************)
\* the characters with codes 32..126, in order (code 96 by its name)
Ascii == <<" ", "!", "\"", "#", "$", "%", "&", "'", "(", ")", "*", "+",
          ",", "-", ".", "/", "0", "1", "2", "3", "4", "5", "6", "7",
          "8", "9", ":", ";", "<", "=", ">", "?", "@", "A", "B", "C",
          "D", "E", "F", "G", "H", "I", "J", "K", "L", "M", "N", "O",
          "P", "Q", "R", "S", "T", "U", "V", "W", "X", "Y", "Z", "[",
          "\\", "]", "^", "_", "U+0060", "a", "b", "c", "d", "e", "f", "g",
          "h", "i", "j", "k", "l", "m", "n", "o", "p", "q", "r", "s",
          "t", "u", "v", "w", "x", "y", "z", "{", "|", "}", "~">>

\* U+FFFD, what bytes.decode('utf-8', 'replace') puts for an invalid byte
Replacement == "U+FFFD"

HexDigits == <<"0", "1", "2", "3", "4", "5", "6", "7", "8", "9",
               "A", "B", "C", "D", "E", "F">>
HexLower == <<"0", "1", "2", "3", "4", "5", "6", "7", "8", "9",
              "a", "b", "c", "d", "e", "f">>

IsHex(c) == \E i \in 1..16 : HexDigits[i] = c \/ HexLower[i] = c
HexVal(c) == (CHOOSE i \in 1..16 : HexDigits[i] = c \/ HexLower[i] = c) - 1

\* ord(c) of an ASCII character
Ord(c) == (CHOOSE i \in 1..Len(Ascii) : Ascii[i] = c) + 31

\* the character a lone decoded byte b becomes: itself below 128 (a control
\* character is written by its code), U+FFFD otherwise
Chr(b) ==
    IF b >= 32 /\ b <= 126
    THEN Ascii[b - 31]
    ELSE IF b < 128 THEN "\\x" \o ToString(b)
    ELSE Replacement

\* the characters quote never encodes
AlwaysSafe ==
    {LowerCase[i] : i \in 1..26} \cup {UpperCase[i] : i \in 1..26}
    \cup {Digit[i] : i \in 1..10} \cup {"_", ".", "-", "~"}

QuoteChar(c, safe) ==
    IF c \in AlwaysSafe \cup safe THEN <<c>>
    ELSE IF c = Replacement
         THEN <<"%", "E", "F", "%", "B", "F", "%", "B", "D">>
         ELSE <<"%", HexDigits[(Ord(c) \div 16) + 1],
                HexDigits[(Ord(c) % 16) + 1]>>

\* urllib.parse.quote(s, safe=safe)
RECURSIVE Quote(_, _)
Quote(s, safe) ==
    IF s = <<>> THEN <<>>
    ELSE QuoteChar(Head(s), safe) \o Quote(Tail(s), safe)

\* urllib.parse.unquote(s): every %XY with hex digits X, Y becomes the byte,
\* any other % stays.  A text holds at most one byte above 127 here, so each
\* such byte is an invalid sequence of its own.
RECURSIVE Unquote(_)
Unquote(s) ==
    IF s = <<>> THEN <<>>
    ELSE IF Head(s) = "%" /\ Len(s) >= 3 /\ IsHex(s[2]) /\ IsHex(s[3])
         THEN <<Chr(16 * HexVal(s[2]) + HexVal(s[3]))>>
              \o Unquote(SubSeq(s, 4, Len(s)))
         ELSE <<Head(s)>> \o Unquote(Tail(s))

(***************************************************************************)
(* download_format, lines 271-283.                                         *)
(***************************************************************************)
\* c.isalnum(), on ASCII
IsAlnum(c) ==
    \/ \E i \in 1..26 : LowerCase[i] = c \/ UpperCase[i] = c
    \/ \E i \in 1..10 : Digit[i] = c

\* s.rstrip(), on the characters line 273 keeps
RECURSIVE RStrip(_)
RStrip(s) ==
    IF s /= <<>> /\ s[Len(s)] = " " THEN RStrip(SubSeq(s, 1, Len(s) - 1))
    ELSE s

\* line 273
SafeTitle(t) ==
    RStrip(SelectSeq(t, LAMBDA c : IsAlnum(c) \/ c \in {" ", "-", "_"}))

\* line 274
MakeFilename(t, e) == SafeTitle(t) \o <<".">> \o e

\* lines 277-278: the safe set of the two quote calls
LinkSafe == {}

ProxyPrefix ==
    <<"h", "t", "t", "p", ":", "/", "/", "l", "o", "c", "a", "l", "h", "o",
      "s", "t", ":", "8", "0", "0", "0", "/", "d", "o", "w", "n", "l", "o",
      "a", "d", "-", "p", "r", "o", "x", "y", "?", "v", "i", "d", "e", "o",
      "_", "u", "r", "l", "=">>

\* line 281
MakeProxyUrl(u, f) ==
    ProxyPrefix \o Quote(u, LinkSafe)
    \o <<"&", "f", "i", "l", "e", "n", "a", "m", "e", "=">>
    \o Quote(f, LinkSafe)

DownloadFormat ==
    /\ lpc = "start"
    /\ link' = [download_url |-> MakeProxyUrl(format_url,
                                              MakeFilename(title, ext_arg)),
                filename |-> MakeFilename(title, ext_arg)]
    /\ lpc' = "returned"
    /\ UNCHANGED <<format_url, title, ext_arg>>
    /\ UNCHANGED <<extract_vars, proxy_vars>>

(***************************************************************************)
(* The request for link.download_url: the framework splits the query       *)
(* string and decodes each parameter once (line 88: video_url and filename *)
(* are query parameters).                                                  *)
(***************************************************************************)
\* the position of the first c in s, 0 when there is none
IndexOf(s, c) ==
    IF \E i \in 1..Len(s) : s[i] = c
    THEN CHOOSE i \in 1..Len(s) : s[i] = c /\ \A j \in 1..(i - 1) : s[j] /= c
    ELSE 0

\* s.split(c)
RECURSIVE Split(_, _)
Split(s, c) ==
    IF IndexOf(s, c) = 0 THEN <<s>>
    ELSE <<SubSeq(s, 1, IndexOf(s, c) - 1)>>
         \o Split(SubSeq(s, IndexOf(s, c) + 1, Len(s)), c)

\* the decoding of one query value: + is a space, then unquote
QueryDecode(s) ==
    Unquote([i \in 1..Len(s) |-> IF s[i] = "+" THEN " " ELSE s[i]])

\* the value of query parameter name in url (the last one, if repeated)
QueryParam(url, name) ==
    LET query == SubSeq(url, IndexOf(url, "?") + 1, Len(url))
        pairs == Split(query, "&")
        hits == {i \in 1..Len(pairs) :
                    /\ IndexOf(pairs[i], "=") > 0
                    /\ SubSeq(pairs[i], 1, IndexOf(pairs[i], "=") - 1) = name}
        last == CHOOSE i \in hits : \A j \in hits : j <= i
    IN  QueryDecode(SubSeq(pairs[last], IndexOf(pairs[last], "=") + 1,
                           Len(pairs[last])))

FollowLink ==
    /\ lpc = "returned"
    /\ ppc = "off"
    /\ video_url' = QueryParam(link.download_url,
                            <<"v", "i", "d", "e", "o", "_", "u", "r", "l">>)
    /\ filename' = QueryParam(link.download_url,
                           <<"f", "i", "l", "e", "n", "a", "m", "e">>)
    /\ ppc' = "request"
    /\ lpc' = "followed"
    /\ UNCHANGED <<format_url, title, ext_arg, link>>
    /\ UNCHANGED <<decoded_video_url, fetch_count, upstream, upstream_conn,
                   upstream_pos, client_status, client_headers, client_bytes,
                   client_stream, read_failed>>
    /\ UNCHANGED extract_vars

(***************************************************************************)
(* download_video_proxy, lines 92-150.                                     *)
(*                                                                         *)
(* What the libraries do with the upstream connection: requests.get with   *)
(* stream=True keeps it checked out by `response` until the body has been  *)
(* read to its end, response.close() is called, or a read fails; an        *)
(* unreferenced response is closed by the garbage collector at some later  *)
(* time.  The handler has no `with`, no `finally` and no close().          *)
(***************************************************************************)
\* line 120
chunk_size == 8192

\* a test that lets every 2xx status through
StatusOkAny2xx(s) == s \in 200..299

\* line 109
StatusOk(s) == s \in {200, 206}

\* lines 128-140
ResponseHeaders(decoded_filename, headers) ==
    LET content_type ==
            Get(headers, "content-type",
                <<"v", "i", "d", "e", "o", "/", "m", "p", "4">>)
        content_length == Get(headers, "content-length", <<>>)
        safe_filename == Quote(decoded_filename, {"/"})
        base ==
            [n \in {"Content-Disposition", "Content-Type",
                    "Access-Control-Allow-Origin",
                    "Access-Control-Expose-Headers", "Cache-Control"} |->
                CASE n = "Content-Disposition" ->
                        <<"a", "t", "t", "a", "c", "h", "m", "e", "n", "t",
                          ";", " ", "f", "i", "l", "e", "n", "a", "m", "e",
                          "*", "=", "U", "T", "F", "-", "8", "'", "'">>
                        \o safe_filename
                  [] n = "Content-Type" -> content_type
                  [] n = "Access-Control-Allow-Origin" -> <<"*">>
                  [] n = "Access-Control-Expose-Headers" ->
                        <<"C", "o", "n", "t", "e", "n", "t", "-", "D", "i",
                          "s", "p", "o", "s", "i", "t", "i", "o", "n">>
                  [] OTHER -> <<"n", "o", "-", "c", "a", "c", "h", "e">>]
    IN  IF content_length /= <<>>
        THEN base @@ ("Content-Length" :> content_length)
        ELSE base

\* lines 93-107: the inputs are decoded and requests.get is called; it
\* returns a response that holds the connection
ProxyFetch ==
    /\ ppc = "request"
    /\ decoded_video_url' = Unquote(video_url)
    /\ fetch_count' = fetch_count + 1
    /\ upstream_conn' = "open"
    /\ ppc' = "fetched"
    /\ UNCHANGED <<video_url, filename, upstream, upstream_pos, client_status,
                   client_headers, client_bytes, client_stream, read_failed>>
    /\ UNCHANGED <<extract_vars, link_vars>>

\* line 107 raises (no route to the host, invalid URL, ...): lines 148-150
ProxyFetchFails ==
    /\ ppc = "request"
    /\ decoded_video_url' = Unquote(video_url)
    /\ fetch_count' = fetch_count + 1
    /\ client_status' = 400
    /\ ppc' = "done"
    /\ UNCHANGED <<video_url, filename, upstream, upstream_conn, upstream_pos,
                   client_headers, client_bytes, client_stream, read_failed>>
    /\ UNCHANGED <<extract_vars, link_vars>>

\* lines 109-150: a status other than 200 and 206 raises HTTPException(400),
\* which line 148 catches and line 150 raises again as a 400; otherwise the
\* StreamingResponse is returned and its headers go to the client
ProxyRespond ==
    /\ ppc = "fetched"
    /\ IF ~StatusOk(upstream.status)
       THEN /\ client_status' = 400
            /\ ppc' = "done"
            /\ UNCHANGED <<client_headers, client_stream>>
       ELSE /\ client_status' = 200
            /\ client_headers' =
                   ResponseHeaders(Unquote(filename), upstream.headers)
            /\ client_stream' = "open"
            /\ ppc' = "streaming"
    /\ UNCHANGED <<video_url, filename, decoded_video_url, fetch_count,
                   upstream, upstream_conn, upstream_pos, client_bytes,
                   read_failed>>
    /\ UNCHANGED <<extract_vars, link_vars>>

\* what line 122 adds to the bytes the client has
Forward(sent, chunk) == IF chunk /= <<>> THEN sent \o chunk ELSE sent

\* lines 120-122: iter_content hands over the next chunk, of at most
\* chunk_size bytes, and the generator yields it
StreamChunk ==
    /\ ppc = "streaming"
    /\ upstream_pos < Len(upstream.body)
    /\ \E n \in 0..Min(chunk_size, Len(upstream.body) - upstream_pos) :
          LET chunk == SubSeq(upstream.body, upstream_pos + 1,
                              upstream_pos + n)
          IN  /\ upstream_pos' = upstream_pos + n
              /\ client_bytes' = Forward(client_bytes, chunk)
    /\ UNCHANGED <<video_url, filename, decoded_video_url, fetch_count,
                   upstream, upstream_conn, client_status, client_headers,
                   client_stream, read_failed, ppc>>
    /\ UNCHANGED <<extract_vars, link_vars>>

\* line 120: iter_content is exhausted, the generator returns and the
\* response ends; the body was read to its end, which releases the connection
StreamEnd ==
    /\ ppc = "streaming"
    /\ upstream_pos = Len(upstream.body)
    /\ client_stream' = "ended"
    /\ upstream_conn' = "closed"
    /\ ppc' = "done"
    /\ UNCHANGED <<video_url, filename, decoded_video_url, fetch_count,
                   upstream, upstream_pos, client_status, client_headers,
                   client_bytes, read_failed>>
    /\ UNCHANGED <<extract_vars, link_vars>>

\* a generator that logs the error and does not raise it again
SwallowReadError == "ended"

\* lines 123-125: how the client's stream ends when iter_content raises
AfterReadError == "aborted"

\* line 120 raises (the upstream connection broke): the failed read closes
\* the connection, the generator logs and raises again, and the server
\* aborts the client's response
StreamReadError ==
    /\ ppc = "streaming"
    /\ read_failed' = TRUE
    /\ client_stream' = AfterReadError
    /\ upstream_conn' = "closed"
    /\ ppc' = "done"
    /\ UNCHANGED <<video_url, filename, decoded_video_url, fetch_count,
                   upstream, upstream_pos, client_status, client_headers,
                   client_bytes>>
    /\ UNCHANGED <<extract_vars, link_vars>>

\* the client goes away mid-stream: the server drops the generator; nothing
\* in lines 118-146 closes `response`
ClientDisconnect ==
    /\ ppc = "streaming"
    /\ client_stream' = "disconnected"
    /\ ppc' = "done"
    /\ UNCHANGED <<video_url, filename, decoded_video_url, fetch_count,
                   upstream, upstream_conn, upstream_pos, client_status,
                   client_headers, client_bytes, read_failed>>
    /\ UNCHANGED <<extract_vars, link_vars>>

\* some time after the handler is over the garbage collector may reclaim a
\* `response` left open, which closes its socket
GarbageCollect ==
    /\ ppc = "done"
    /\ upstream_conn = "open"
    /\ upstream_conn' = "closed"
    /\ UNCHANGED <<video_url, filename, decoded_video_url, fetch_count,
                   upstream, upstream_pos, client_status, client_headers,
                   client_bytes, client_stream, read_failed, ppc>>
    /\ UNCHANGED <<extract_vars, link_vars>>

(***************************************************************************)
(* The inputs.                                                             *)
(***************************************************************************)
UrlA == <<"h", "t", "t", "p", ":", "/", "/", "a">>
UrlB == <<"h", "t", "t", "p", ":", "/", "/", "b">>
UrlHls == <<"h", "t", "t", "p", ":", "/", "/", "a", ".", "m", "3", "u", "8">>
UrlDash == <<"h", "t", "t", "p", ":", "/", "/", "a", ".", "m", "p", "d">>
UrlManifest ==
    <<"h", "t", "t", "p", ":", "/", "/", "a", "/",
      "M", "a", "n", "i", "f", "e", "s", "t", "/", "b">>
UrlFtp == <<"f", "t", "p", ":", "/", "/", "a">>
UrlHlsQuery ==
    <<"h", "t", "t", "p", ":", "/", "/", "a", ".", "m", "3", "u", "8", "?", "x">>

\* raw formats as the extractor returns them: video formats that share a
\* quality (1, 2, 5), that differ in fps (4) or container (6), audio formats
\* (7, 8, 9) with height None, missing and 0, and formats every filter of
\* lines 181-192 meets (10-16); keys are missing, None or set
FormatPool ==
    <<[format_id |-> V(<<"1">>), url |-> V(UrlA),
       ext |-> V(<<"m", "p", "4">>), height |-> V(720), width |-> V(1280),
       fps |-> V(30), vcodec |-> V(<<"a", "v", "c", "1">>),
       acodec |-> V(<<"m", "p", "4", "a">>), filesize |-> V(5000000)],
      [format_id |-> V(<<"2">>), url |-> V(UrlB),
       ext |-> V(<<"m", "p", "4">>), height |-> V(720), width |-> V(1280),
       fps |-> V(30), vcodec |-> V(<<"a", "v", "c", "1">>),
       acodec |-> V(<<"m", "p", "4", "a">>), filesize |-> V(3000000)],
      [format_id |-> V(<<"3">>), url |-> V(UrlA),
       ext |-> V(<<"m", "p", "4">>), height |-> V(480), width |-> V(854),
       vcodec |-> V(<<"a", "v", "c", "1">>),
       acodec |-> V(<<"m", "p", "4", "a">>), filesize |-> V(2000000)],
      [format_id |-> V(<<"4">>), url |-> V(UrlB),
       ext |-> V(<<"m", "p", "4">>), height |-> V(720), fps |-> V(60),
       vcodec |-> V(<<"a", "v", "c", "1">>),
       acodec |-> V(<<"n", "o", "n", "e">>), filesize |-> None,
       filesize_approx |-> V(5000000)],
      [format_id |-> V(<<"5">>), url |-> V(UrlB),
       ext |-> V(<<"m", "p", "4">>), height |-> V(720), width |-> V(1280),
       fps |-> V(30), vcodec |-> V(<<"a", "v", "c", "1">>),
       acodec |-> V(<<"m", "p", "4", "a">>), filesize |-> V(5000000)],
      [format_id |-> V(<<"6">>), url |-> V(UrlA),
       ext |-> V(<<"w", "e", "b", "m">>), height |-> V(720), fps |-> None,
       vcodec |-> V(<<"v", "p", "9">>),
       acodec |-> V(<<"n", "o", "n", "e">>)],
      [format_id |-> V(<<"7">>), url |-> V(UrlA),
       ext |-> V(<<"m", "4", "a">>), height |-> None,
       vcodec |-> V(<<"n", "o", "n", "e">>),
       acodec |-> V(<<"m", "p", "4", "a">>), abr |-> V(128),
       filesize |-> V(1536)],
      [format_id |-> V(<<"8">>), url |-> V(UrlB),
       ext |-> V(<<"m", "4", "a">>), vcodec |-> V(<<"n", "o", "n", "e">>),
       acodec |-> V(<<"m", "p", "4", "a">>), filesize_approx |-> V(2048)],
      [format_id |-> V(<<"9">>), url |-> V(UrlA),
       ext |-> V(<<"m", "4", "a">>), height |-> V(0),
       abr |-> None, vcodec |-> None, acodec |-> None],
      [format_id |-> V(<<"1", "0">>), url |-> V(UrlHls),
       ext |-> V(<<"m", "p", "4">>), height |-> V(1080),
       vcodec |-> V(<<"a", "v", "c", "1">>),
       acodec |-> V(<<"m", "p", "4", "a">>), filesize |-> V(9000000)],
      [format_id |-> V(<<"1", "1">>), url |-> V(UrlDash),
       ext |-> V(<<"m", "p", "4">>), height |-> V(1080),
       vcodec |-> V(<<"a", "v", "c", "1">>),
       acodec |-> V(<<"n", "o", "n", "e">>)],
      [format_id |-> V(<<"1", "2">>), url |-> V(UrlManifest),
       ext |-> V(<<"m", "p", "4">>), height |-> V(1080),
       vcodec |-> V(<<"a", "v", "c", "1">>),
       acodec |-> V(<<"m", "p", "4", "a">>)],
      [format_id |-> V(<<"1", "3">>), url |-> V(UrlFtp),
       ext |-> V(<<"m", "p", "4">>), height |-> V(1080),
       vcodec |-> V(<<"a", "v", "c", "1">>),
       acodec |-> V(<<"m", "p", "4", "a">>)],
      [format_id |-> V(<<"1", "4">>), url |-> V(<<>>),
       ext |-> V(<<"m", "p", "4">>), height |-> V(1080),
       vcodec |-> V(<<"a", "v", "c", "1">>),
       acodec |-> V(<<"m", "p", "4", "a">>)],
      [format_id |-> V(<<"1", "5">>), ext |-> V(<<"m", "p", "4">>),
       height |-> V(1080), vcodec |-> V(<<"a", "v", "c", "1">>),
       acodec |-> V(<<"m", "p", "4", "a">>)],
      [format_id |-> V(<<"1", "6">>), url |-> V(UrlA),
       height |-> V(1080),
       vcodec |-> V(<<"n", "o", "n", "e">>),
       acodec |-> V(<<"n", "o", "n", "e">>), filesize |-> V(7000000)],
      [format_id |-> V(<<"1", "7">>), url |-> V(UrlHlsQuery),
       height |-> V(1080),
       vcodec |-> V(<<"a", "v", "c", "1">>),
       acodec |-> V(<<"m", "p", "4", "a">>), filesize |-> V(8000000)]>>

\* fs is a list of at most n formats of the pool
IsFormatList(fs, n) ==
    \E k \in 0..n : \E c \in [1..k -> 1..Len(FormatPool)] :
        fs = [i \in 1..k |-> FormatPool[c[i]]]

EmptyDict == [k \in {} |-> None]

\* no request for download_format or download_video_proxy
LinkOff ==
    /\ format_url = <<>> /\ title = <<>> /\ ext_arg = <<>>
    /\ link = None /\ lpc = "off"

ProxyOff ==
    /\ video_url = <<>> /\ filename = <<>> /\ decoded_video_url = <<>>
    /\ fetch_count = 0
    /\ upstream = [status |-> 0, headers |-> EmptyDict, body |-> <<>>]
    /\ upstream_conn = "none" /\ upstream_pos = 0
    /\ client_status = 0 /\ client_headers = EmptyDict
    /\ client_bytes = <<>> /\ client_stream = "none"
    /\ read_failed = FALSE /\ ppc = "off"

\* a request for extract_video_info has arrived
ExtractStart ==
    /\ sorted_formats = <<>> /\ idx = 0 /\ seen_qualities = {}
    /\ quality_options = <<>> /\ kept = <<>> /\ pc = "start" /\ status = 0

ExtractOff ==
    /\ formats = <<>> /\ sorted_formats = <<>> /\ idx = 0
    /\ seen_qualities = {} /\ quality_options = <<>> /\ kept = <<>>
    /\ pc = "off" /\ status = 0

(***************************************************************************)
(* Spec: one request for /extract-video, for every list of at most         *)
(* MaxFormats formats of the pool.                                         *)
(***************************************************************************)
Init ==
    /\ IsFormatList(formats, MaxFormats)
    /\ ExtractStart
    /\ LinkOff
    /\ ProxyOff

NextExtract == ExtractInfo \/ ExtractorFails \/ LoopIter \/ Finish

Spec == Init /\ [][NextExtract]_vars

(***************************************************************************)
(* The properties of extract_video_info, stated on the raw formats and on  *)
(* the options as the claims word them.                                    *)
(***************************************************************************)
\* a format with a height: the height is there and is not 0
HasHeight(f) == "height" \in DOMAIN f /\ f.height /= None /\ f.height[1] /= 0

\* the container, mp4 when the format names none
ExtOf(f) == IF "ext" \in DOMAIN f THEN f.ext[1] ELSE <<"m", "p", "4">>

\* the dedup key of a raw format: "{height}p_{ext}", with "_{fps}fps" when
\* fps > 30, for a format with a height; "audio_{abr}kbps_{ext}" otherwise,
\* abr being 128 for a format without the key (a null abr is written as
\* Python writes it)
DedupKey(f) ==
    IF HasHeight(f)
    THEN IntToStr(f.height[1]) \o <<"p", "_">> \o ExtOf(f)
         \o (IF "fps" \in DOMAIN f /\ f.fps /= None /\ f.fps[1] > 30
             THEN <<"_">> \o IntToStr(f.fps[1]) \o <<"f", "p", "s">>
             ELSE <<>>)
    ELSE <<"a", "u", "d", "i", "o", "_">>
         \o (IF "abr" \in DOMAIN f THEN FStrInt(f.abr) ELSE <<"1", "2", "8">>)
         \o <<"k", "b", "p", "s", "_">> \o ExtOf(f)

\* a url, vcodec and acodec (each None when missing) that the filter rejects
Rejected(url, vcodec, acodec) ==
    \/ url = None
    \/ url[1] = <<>>
    \/ SubSeq(url[1], 1, 4) /= <<"h", "t", "t", "p">>
    \/ SubSeq(url[1], Len(url[1]) - 4, Len(url[1]))
           = <<".", "m", "3", "u", "8">>
    \/ SubSeq(url[1], Len(url[1]) - 3, Len(url[1])) = <<".", "m", "p", "d">>
    \/ \E i \in 1..Len(url[1]) :
          /\ i + 7 <= Len(url[1])
          /\ \A k \in 0..7 :
                url[1][i + k] \in
                    {<<"m", "a", "n", "i", "f", "e", "s", "t">>[k + 1],
                     <<"M", "A", "N", "I", "F", "E", "S", "T">>[k + 1]}
    \/ /\ vcodec = V(<<"n", "o", "n", "e">>)
       /\ acodec = V(<<"n", "o", "n", "e">>)

\* a raw format that does not survive filtering
RejectedFormat(f) ==
    Rejected(Get(f, "url", None), Get(f, "vcodec", None),
             Get(f, "acodec", None))

\* height and effective size of an option or of a raw format: a missing
\* height counts as 0; filesize if present, else filesize_approx, else 0
HeightOf(o) ==
    IF "height" \in DOMAIN o /\ o.height /= None THEN o.height[1] ELSE 0
EffectiveSize(o) ==
    IF "filesize" \in DOMAIN o /\ o.filesize /= None THEN o.filesize[1]
    ELSE IF "filesize_approx" \in DOMAIN o /\ o.filesize_approx /= None
         THEN o.filesize_approx[1]
         ELSE 0

\* every option is the QualityOption of the raw format it was built from
OptionsAreKept ==
    /\ Len(kept) = Len(quality_options)
    /\ \A i \in 1..Len(kept) :
          /\ kept[i] \in 1..Len(formats)
          /\ quality_options[i].url = formats[kept[i]].url
          /\ quality_options[i].format_id
                 = Get(formats[kept[i]], "format_id", V(<<>>))

ExampleFormats == <<FormatPool[1], FormatPool[2], FormatPool[3]>>

C5_NoRejectedFormat ==
    /\ OptionsAreKept
    /\ \A i \in 1..Len(quality_options) :
          /\ ~Rejected(quality_options[i].url, quality_options[i].vcodec,
                       quality_options[i].acodec)
          /\ ~RejectedFormat(formats[kept[i]])

\* C5 witness: a response with an option although the sort put a rejected
\* format first
C5_Witness ==
    /\ pc = "done" /\ status = 200
    /\ quality_options /= <<>>
    /\ RejectedFormat(formats[sorted_formats[1]])

\* C6: an empty list, or one whose every format is rejected, ends in a 400,
\* and no response with status 200 has an empty quality_options
C6_NoEmptySuccess ==
    /\ (pc = "done" /\ \A r \in 1..Len(formats) : RejectedFormat(formats[r]))
          => status = 400
    /\ status = 200 => quality_options /= <<>>

\* C6 witness: the loop has gone through a list of rejected formats and the
\* handler has answered 400
C6_Witness ==
    /\ pc = "done" /\ status = 400
    /\ Len(formats) >= 2
    /\ idx = Len(formats) + 1
    /\ \A r \in 1..Len(formats) : RejectedFormat(formats[r])

(***************************************************************************)
(* SpecCap: one request for /extract-video, for lists of up to             *)
(* MaxCapFormats video formats, more than the cap of line 232.  Format i   *)
(* of a list has one of m heights, taken in the order step gives, and a    *)
(* size of i; format q, if any, is an HLS playlist.                        *)
(***************************************************************************)
CapFormat(i, m, step, q) ==
    [format_id |-> V(IntToStr(i)),
     url |-> V(IF i = q THEN UrlHls ELSE UrlA),
     ext |-> V(<<"m", "p", "4">>),
     height |-> V(10 * (((i * step) % m) + 1)),
     fps |-> V(30),
     vcodec |-> V(<<"a", "v", "c", "1">>),
     acodec |-> V(<<"m", "p", "4", "a">>),
     filesize |-> V(i)]

InitCap ==
    /\ \E n \in 0..MaxCapFormats, m \in {4, 16, MaxCapFormats + 1},
          step \in {1, 7} :
          \E q \in 0..n :
             formats = [i \in 1..n |-> CapFormat(i, m, step, q)]
    /\ ExtractStart
    /\ LinkOff
    /\ ProxyOff

SpecCap == InitCap /\ [][NextExtract]_vars

\* r comes before r2 in the sort order: descending height, then descending
\* effective size, then the extractor's order
Before(r, r2) ==
    \/ HeightOf(formats[r]) > HeightOf(formats[r2])
    \/ /\ HeightOf(formats[r]) = HeightOf(formats[r2])
       /\ \/ EffectiveSize(formats[r]) > EffectiveSize(formats[r2])
          \/ /\ EffectiveSize(formats[r]) = EffectiveSize(formats[r2])
             /\ r < r2

\* the raw formats that survive filtering, one per dedup key: the first of
\* each key in the sort order
Candidates ==
    {r \in 1..Len(formats) :
        /\ ~RejectedFormat(formats[r])
        /\ \A r2 \in 1..Len(formats) :
              (/\ ~RejectedFormat(formats[r2])
               /\ DedupKey(formats[r2]) = DedupKey(formats[r]))
              => ~Before(r2, r)}

\* the number of candidates before r in the sort order
Rank(r) == Cardinality({r2 \in Candidates : Before(r2, r)})

\* C2: quality_options never has more than 15 entries, and the response holds
\* the first 15 candidates in the sort order when there are more than 15 (all
\* of them otherwise)
C2_CapAtFifteen ==
    /\ Len(quality_options) <= 15
    /\ OptionsAreKept
    /\ (pc = "done" /\ status = 200) =>
          /\ Len(kept) = Min(15, Cardinality(Candidates))
          /\ \A i \in 1..Len(kept) :
                kept[i] \in Candidates /\ Rank(kept[i]) = i - 1

\* C2 witness: a response of 15 options to a list with more than 15
\* candidates, not all of which the loop looked at
C2_Witness ==
    /\ pc = "done" /\ status = 200
    /\ Cardinality(Candidates) > 15
    /\ Len(quality_options) = 15
    /\ idx <= Len(formats)

(***************************************************************************)
(* SpecRelay: one request for /download-proxy, for every upstream status,  *)
(* header set and body of at most MaxBody bytes.                           *)
(***************************************************************************)
Statuses == {200, 204, 206, 404, 500}

Bytes == {0, 255}


\* upstream response headers: none, a content-length, both
HeaderPool ==
    <<EmptyDict,
      ("content-length" :> <<"5", "0", "0">>),
      ("content-length" :> <<"5", "0", "0">>)
          @@ ("content-type"
                  :> <<"v", "i", "d", "e", "o", "/", "w", "e", "b", "m">>)>>

UrlVideo == <<"h", "t", "t", "p", ":", "/", "/", "h", "/", "v">>

ProxyIdle ==
    /\ decoded_video_url = <<>> /\ fetch_count = 0
    /\ upstream_conn = "none" /\ upstream_pos = 0
    /\ client_status = 0 /\ client_headers = EmptyDict
    /\ client_bytes = <<>> /\ client_stream = "none"
    /\ read_failed = FALSE

InitRelay ==
    /\ video_url = UrlVideo
    /\ filename \in {<<"a", ".", "m", "p", "4">>,
                     <<"a", " ", "b", ".", "m", "p", "4">>}
    /\ \E s \in Statuses, h \in 1..Len(HeaderPool), k \in 0..MaxBody :
          \E b \in [1..k -> Bytes] :
             upstream = [status |-> s, headers |-> HeaderPool[h], body |-> b]
    /\ ProxyIdle
    /\ ppc = "request"
    /\ LinkOff
    /\ ExtractOff

NextRelay ==
    \/ ProxyFetch \/ ProxyFetchFails \/ ProxyRespond
    \/ StreamChunk \/ StreamEnd \/ StreamReadError
    \/ ClientDisconnect \/ GarbageCollect

SpecRelay == InitRelay /\ [][NextRelay]_vars

\* C7: when a relay request is over, however it ended, the upstream
\* connection is not open
C7_ConnectionsReleased == ppc = "done" => upstream_conn /= "open"

\* C8: the client gets a stream only for an upstream status of 200 or 206;
\* for any other status it gets a 400 and no byte; requests.get is called once
C8_OnlySuccessStreams ==
    /\ client_stream /= "none" => upstream.status \in {200, 206}
    /\ (ppc \in {"streaming", "done"} /\ upstream_conn /= "none"
        /\ upstream.status \notin {200, 206})
          => /\ client_status = 400
             /\ client_bytes = <<>>
             /\ client_stream = "none"
    /\ fetch_count <= 1
    /\ ppc \in {"fetched", "streaming", "done"} => fetch_count = 1

\* C8 witness: upstream answered 404 with a body and the request ended in 400
C8_Witness ==
    /\ ppc = "done"
    /\ upstream_conn /= "none"
    /\ upstream.status = 404
    /\ upstream.body /= <<>>
    /\ client_status = 400

\* C9: what the client has is a prefix of the upstream body; its stream ends
\* normally only with the whole body; a failed read ends it aborted
C9_PrefixAndAbort ==
    /\ Len(client_bytes) <= Len(upstream.body)
    /\ client_bytes = SubSeq(upstream.body, 1, Len(client_bytes))
    /\ client_stream = "ended" => client_bytes = upstream.body
    /\ read_failed => client_stream = "aborted"

\* C9 witness: a read failed in the middle of the body
C9_Witness ==
    /\ read_failed
    /\ client_stream = "aborted"
    /\ client_bytes /= <<>>
    /\ Len(client_bytes) < Len(upstream.body)

(***************************************************************************)
(* SpecLink: download_format builds a link, the client follows it and      *)
(* download_video_proxy serves it.  format_url is http://h/ and at most    *)
(* MaxTail characters, among them % and hex digits.                        *)
(***************************************************************************)
\* t is a text of at most n characters of the alphabet
IsText(t, alphabet, n) == \E k \in 0..n : t \in [1..k -> alphabet]

LinkBase == <<"h", "t", "t", "p", ":", "/", "/", "h", "/">>

InitLink ==
    /\ \E k \in 0..MaxTail :
          \E t \in [1..k -> {"x", "/", "%", "2", "5", "F"}] :
             format_url = LinkBase \o t
    /\ IsText(title, {"x", " ", "%"}, MaxTitle)
    /\ ext_arg \in {<<"m", "p", "4">>, <<"%", "4", "1">>}
    /\ link = None
    /\ lpc = "start"
    /\ video_url = <<>> /\ filename = <<>>
    /\ upstream \in [status : {200, 404}, headers : {EmptyDict},
                     body : {<<0>>}]
    /\ ProxyIdle
    /\ ppc = "off"
    /\ ExtractOff

NextLink == DownloadFormat \/ FollowLink \/ NextRelay

SpecLink == InitLink /\ [][NextLink]_vars

\* C10: the URL fetched upstream is the format_url given to download_format,
\* and the filename in Content-Disposition is the encoding of its filename
C10_RoundTrip ==
    /\ fetch_count > 0 => decoded_video_url = format_url
    /\ client_stream /= "none" =>
          client_headers["Content-Disposition"]
              = <<"a", "t", "t", "a", "c", "h", "m", "e", "n", "t", ";",
                  " ", "f", "i", "l", "e", "n", "a", "m", "e", "*", "=",
                  "U", "T", "F", "-", "8", "'", "'">>
                \o Quote(link.filename, {"/"})

=============================================================================
